---- MODULE Spec2Model ----
(***************************************************************************)
(* Model of package abi (abi/abi.go): the Type tag, the Value carrier,     *)
(* Value.Serialize, Deserialize, ToValues, FromValues and TypeMatches.     *)
(*                                                                         *)
(* A Go value held in an interface{} slot is a record                      *)
(*   [rep, isnil, bytes, num]                                              *)
(* rep is the dynamic type as fmt's %T prints it, isnil tells a nil slice, *)
(* nil pointer or nil interface from a non-nil one, bytes is the content   *)
(* of a []byte, string or types.Address, num the value of a *big.Int.      *)
(* A []byte is [isnil, bytes]; a slice of elements is [isnil, elems].      *)
(***************************************************************************)
EXTENDS Integers, Sequences, FiniteSets, TLC

\* ---------------------------------------------------------------- bounds
MaxLen == 2
MaxList == 3
MaxTag == 5

ByteVals == {0, 1, 44}

SeqsUpTo(S, n) == UNION {[1..k -> S] : k \in 0..n}

ByteSeqs == SeqsUpTo(ByteVals, MaxLen)

\* ------------------------------------------------------------- Type tags
Invalid == 0
Address == 1
Integer == 2
Bytes == 3
String == 4

Tags == 0..MaxTag

\* ------------------------------------------------------- math/big helpers
Base == 256

Abs(n) == IF n < 0 THEN 0 - n ELSE n

\* Mutant of NatBytes: least significant byte first.
RECURSIVE NatBytesLittleEndian(_)
NatBytesLittleEndian(n) ==
    IF n = 0 THEN <<>> ELSE <<n % Base>> \o NatBytesLittleEndian(n \div Base)

\* (*big.Int).Bytes on a non-nil receiver: big-endian bytes of |x|, no
\* leading zero byte, the empty slice for zero.
RECURSIVE NatBytes(_)
NatBytes(n) == IF n = 0 THEN <<>> ELSE Append(NatBytes(n \div Base), n % Base)

IntBytes(n) == NatBytes(Abs(n))

\* Mutant of SetBytes: buf read least significant byte first.
RECURSIVE SetBytesLittleEndian(_)
SetBytesLittleEndian(buf) ==
    IF buf = <<>> THEN 0 ELSE Head(buf) + Base * SetBytesLittleEndian(Tail(buf))

\* (*big.Int).SetBytes: buf read as a big-endian unsigned integer.
RECURSIVE SetBytes(_)
SetBytes(buf) ==
    IF buf = <<>> THEN 0
    ELSE SetBytes(SubSeq(buf, 1, Len(buf) - 1)) * Base + buf[Len(buf)]

\* ------------------------------------------------------------ Go values
NilBytes == [isnil |-> TRUE, bytes |-> <<>>]

MkBytes(b) == [isnil |-> FALSE, bytes |-> b]

NilInterface == [rep |-> "<nil>", isnil |-> TRUE, bytes |-> <<>>, num |-> 0]

\* types.Address is converted from and to []byte and from "" in abi.go: a
\* value of it is its bytes, and the conversions keep them.
AddressOf(b) == [rep |-> "types.Address", isnil |-> FALSE, bytes |-> b, num |-> 0]

BigInt(n) == [rep |-> "*big.Int", isnil |-> FALSE, bytes |-> <<>>, num |-> n]

NilBigInt == [rep |-> "*big.Int", isnil |-> TRUE, bytes |-> <<>>, num |-> 0]

ByteSlice(s) == [rep |-> "[]uint8", isnil |-> s.isnil, bytes |-> s.bytes, num |-> 0]

StringOf(b) == [rep |-> "string", isnil |-> FALSE, bytes |-> b, num |-> 0]

PlainInt(n) == [rep |-> "int", isnil |-> FALSE, bytes |-> <<>>, num |-> n]

\* reflect.TypeOf / the %T verb
TypeOf(v) == v.rep

Value(t, v) == [Type |-> t, Val |-> v]

NilList == [isnil |-> TRUE, elems |-> <<>>]

MkList(s) == [isnil |-> FALSE, elems |-> s]

\* --------------------------------------------------------------- errors
NoError == [kind |-> "nil", exp |-> "", got |-> "", tag |-> 0]

ErrInvalidType == [kind |-> "invalid type", exp |-> "", got |-> "", tag |-> 0]

\* Mutant of typeError: the two sides exchanged.
typeErrorSwapped(exp, got) ==
    [kind |-> "typeError", exp |-> got.rep, got |-> exp.rep, tag |-> 0]

typeError(exp, got) ==
    [kind |-> "typeError", exp |-> TypeOf(exp), got |-> TypeOf(got), tag |-> 0]

UnrecognizedType(t) ==
    [kind |-> "unrecognized Type", exp |-> "", got |-> "", tag |-> t]

UnsupportedType(v) ==
    [kind |-> "unsupported type", exp |-> "", got |-> TypeOf(v), tag |-> 0]

\* ------------------------------------------------------ Value.Serialize
Returned(out, err) == [status |-> "returned", out |-> out, err |-> err]

Panicked == [status |-> "panicked", out |-> NilBytes, err |-> NoError]

\* Mutant of Serialize: no case for Invalid, which falls to the default.
SerializeNoInvalidCase(av) ==
    CASE av.Type = Address ->
            IF TypeOf(av.Val) # "types.Address"
            THEN Returned(NilBytes, typeError(AddressOf(<<>>), av.Val))
            ELSE Returned(MkBytes(av.Val.bytes), NoError)
      [] av.Type = Integer ->
            IF TypeOf(av.Val) # "*big.Int"
            THEN Returned(NilBytes, typeError(BigInt(0), av.Val))
            ELSE IF av.Val.isnil
                 THEN Panicked
                 ELSE Returned(MkBytes(IntBytes(av.Val.num)), NoError)
      [] av.Type = Bytes ->
            IF TypeOf(av.Val) # "[]uint8"
            THEN Returned(NilBytes, typeError(ByteSlice(MkBytes(<<>>)), av.Val))
            ELSE Returned([isnil |-> av.Val.isnil, bytes |-> av.Val.bytes], NoError)
      [] av.Type = String ->
            IF TypeOf(av.Val) # "string"
            THEN Returned(NilBytes, typeError(StringOf(<<>>), av.Val))
            ELSE Returned(MkBytes(av.Val.bytes), NoError)
      [] OTHER -> Returned(NilBytes, UnrecognizedType(av.Type))

Serialize(av) ==
    CASE av.Type = Invalid -> Returned(NilBytes, ErrInvalidType)
      [] av.Type = Address ->
            IF TypeOf(av.Val) # "types.Address"
            THEN Returned(NilBytes, typeError(AddressOf(<<>>), av.Val))
            ELSE Returned(MkBytes(av.Val.bytes), NoError)
      [] av.Type = Integer ->
            IF TypeOf(av.Val) # "*big.Int"
            THEN Returned(NilBytes, typeError(BigInt(0), av.Val))
            ELSE IF av.Val.isnil
                 THEN Panicked
                 ELSE Returned(MkBytes(IntBytes(av.Val.num)), NoError)
      [] av.Type = Bytes ->
            IF TypeOf(av.Val) # "[]uint8"
            THEN Returned(NilBytes, typeError(ByteSlice(MkBytes(<<>>)), av.Val))
            ELSE Returned([isnil |-> av.Val.isnil, bytes |-> av.Val.bytes], NoError)
      [] av.Type = String ->
            IF TypeOf(av.Val) # "string"
            THEN Returned(NilBytes, typeError(StringOf(<<>>), av.Val))
            ELSE Returned(MkBytes(av.Val.bytes), NoError)
      [] OTHER -> Returned(NilBytes, UnrecognizedType(av.Type))

\* ------------------------------------------------------------- ToValues
\* Mutant of toValuesLoop: the Values converted so far are returned with the
\* error.
RECURSIVE toValuesLoopPartial(_, _)
toValuesLoopPartial(rest, out) ==
    IF rest = <<>>
    THEN [out |-> MkList(out), err |-> NoError]
    ELSE LET v == Head(rest) IN
         CASE TypeOf(v) = "types.Address" ->
                toValuesLoopPartial(Tail(rest), Append(out, Value(Address, v)))
           [] TypeOf(v) = "*big.Int" ->
                toValuesLoopPartial(Tail(rest), Append(out, Value(Integer, v)))
           [] TypeOf(v) = "[]uint8" ->
                toValuesLoopPartial(Tail(rest), Append(out, Value(Bytes, v)))
           [] TypeOf(v) = "string" ->
                toValuesLoopPartial(Tail(rest), Append(out, Value(String, v)))
           [] OTHER -> [out |-> MkList(out), err |-> UnsupportedType(v)]

\* Mutant of toValuesLoop: a []byte is tagged String.
RECURSIVE toValuesLoopBytesAsString(_, _)
toValuesLoopBytesAsString(rest, out) ==
    IF rest = <<>>
    THEN [out |-> MkList(out), err |-> NoError]
    ELSE LET v == Head(rest) IN
         CASE TypeOf(v) = "types.Address" ->
                toValuesLoopBytesAsString(Tail(rest), Append(out, Value(Address, v)))
           [] TypeOf(v) = "*big.Int" ->
                toValuesLoopBytesAsString(Tail(rest), Append(out, Value(Integer, v)))
           [] TypeOf(v) = "[]uint8" ->
                toValuesLoopBytesAsString(Tail(rest), Append(out, Value(String, v)))
           [] TypeOf(v) = "string" ->
                toValuesLoopBytesAsString(Tail(rest), Append(out, Value(String, v)))
           [] OTHER -> [out |-> NilList, err |-> UnsupportedType(v)]

\* The loop of ToValues: rest is what is left of i, out what was appended.
RECURSIVE toValuesLoop(_, _)
toValuesLoop(rest, out) ==
    IF rest = <<>>
    THEN [out |-> MkList(out), err |-> NoError]
    ELSE LET v == Head(rest) IN
         CASE TypeOf(v) = "types.Address" ->
                toValuesLoop(Tail(rest), Append(out, Value(Address, v)))
           [] TypeOf(v) = "*big.Int" ->
                toValuesLoop(Tail(rest), Append(out, Value(Integer, v)))
           [] TypeOf(v) = "[]uint8" ->
                toValuesLoop(Tail(rest), Append(out, Value(Bytes, v)))
           [] TypeOf(v) = "string" ->
                toValuesLoop(Tail(rest), Append(out, Value(String, v)))
           [] OTHER -> [out |-> NilList, err |-> UnsupportedType(v)]

\* Mutant of ToValues: no normalisation of the empty list.
ToValuesNoNormalize(i) == toValuesLoop(i.elems, <<>>)

ToValues(i) ==
    IF Len(i.elems) = 0
    THEN [out |-> NilList, err |-> NoError]
    ELSE toValuesLoop(i.elems, <<>>)

\* ----------------------------------------------------------- FromValues
\* Mutant of FromValues: out is made with length len(vals) instead of
\* capacity len(vals), so the payloads are appended after len(vals) nils.
FromValuesPrealloc(vals) ==
    IF Len(vals.elems) = 0
    THEN NilList
    ELSE MkList([k \in 1..(2 * Len(vals.elems)) |->
                    IF k <= Len(vals.elems)
                    THEN NilInterface
                    ELSE vals.elems[k - Len(vals.elems)].Val])

FromValues(vals) ==
    IF Len(vals.elems) = 0
    THEN NilList
    ELSE MkList([k \in 1..Len(vals.elems) |-> vals.elems[k].Val])

\* ---------------------------------------------------------- Deserialize
\* The result is (*Value, error); isnil tells the nil *Value.
NilValue == [isnil |-> TRUE, val |-> Value(Invalid, NilInterface)]

ValuePtr(v) == [isnil |-> FALSE, val |-> v]

\* Mutant of Deserialize: an Address of no bytes is refused.
DeserializeLengthCheck(data, t) ==
    CASE t = Invalid -> [out |-> NilValue, err |-> ErrInvalidType]
      [] t = Address ->
            IF Len(data.bytes) = 0
            THEN [out |-> NilValue, err |-> ErrInvalidType]
            ELSE [out |-> ValuePtr(Value(t, AddressOf(data.bytes))), err |-> NoError]
      [] t = Integer ->
            [out |-> ValuePtr(Value(t, BigInt(SetBytes(data.bytes)))), err |-> NoError]
      [] t = Bytes ->
            [out |-> ValuePtr(Value(t, ByteSlice(data))), err |-> NoError]
      [] t = String ->
            [out |-> ValuePtr(Value(t, StringOf(data.bytes))), err |-> NoError]
      [] OTHER -> [out |-> NilValue, err |-> UnrecognizedType(t)]

Deserialize(data, t) ==
    CASE t = Invalid -> [out |-> NilValue, err |-> ErrInvalidType]
      [] t = Address ->
            [out |-> ValuePtr(Value(t, AddressOf(data.bytes))), err |-> NoError]
      [] t = Integer ->
            [out |-> ValuePtr(Value(t, BigInt(SetBytes(data.bytes)))), err |-> NoError]
      [] t = Bytes ->
            [out |-> ValuePtr(Value(t, ByteSlice(data))), err |-> NoError]
      [] t = String ->
            [out |-> ValuePtr(Value(t, StringOf(data.bytes))), err |-> NoError]
      [] OTHER -> [out |-> NilValue, err |-> UnrecognizedType(t)]

\* ---------------------------------------------------------- TypeMatches
typeTable ==
    (Address :> "types.Address") @@ (Integer :> "*big.Int")
    @@ (Bytes :> "[]uint8") @@ (String :> "string")

\* Mutant of TypeMatches: the ok of the lookup is ignored, and a missing
\* entry reads as the nil reflect.Type.
TypeMatchesNoOk(t, val) ==
    (IF t \in DOMAIN typeTable THEN typeTable[t] ELSE "<nil>") = val

TypeMatches(t, val) ==
    IF t \notin DOMAIN typeTable THEN FALSE ELSE typeTable[t] = val

\* ------------------------------------------------------------ the caller
\* The package keeps no state: the state is the caller's.  pc names the entry
\* point the caller starts from, and fixes which of the inputs Init draws.
VARIABLES pc, av, data, t, i, vals, R,
          serIn, ser, desIn, des, tv, fvIn, fv, tm, last

vars == <<pc, av, data, t, i, vals, R,
          serIn, ser, desIn, des, tv, fvIn, fv, tm, last>>

inputs == <<pc, av, data, t, i, vals, R>>

ByteSlices == {NilBytes} \cup {MkBytes(b) : b \in ByteSeqs}

Magnitudes == {SetBytes(b) : b \in ByteSeqs}

Supported ==
    {AddressOf(b) : b \in ByteSeqs}
    \cup {BigInt(n) : n \in Magnitudes} \cup {BigInt(0 - n) : n \in Magnitudes}
    \cup {NilBigInt}
    \cup {ByteSlice(s) : s \in ByteSlices}
    \cup {StringOf(b) : b \in ByteSeqs}

Unsupported == {PlainInt(300), NilInterface}

Natives == Supported \cup Unsupported

Values == {Value(tag, v) : tag \in Tags, v \in Natives}

\* reflect.Type descriptors handed to TypeMatches ("<nil>" is the nil Type)
Reps == {TypeOf(v) : v \in Natives} \cup {"big.Int", "*abi.Value"}

\* elements of the lists handed to ToValues
ListElems ==
    {AddressOf(<<1>>), BigInt(300), BigInt(0 - 1), NilBigInt,
     ByteSlice(NilBytes), ByteSlice(MkBytes(<<1, 2, 3>>)), StringOf(<<104, 105>>),
     PlainInt(300), NilInterface}

NativeLists == {NilList} \cup {MkList(s) : s \in SeqsUpTo(ListElems, MaxList)}

\* elements of the lists handed to FromValues directly
ListValues ==
    {Value(Invalid, NilInterface), Value(Integer, StringOf(<<104, 105>>)),
     Value(String, StringOf(<<104, 105>>)), Value(MaxTag, BigInt(300))}

ValueLists == {NilList} \cup {MkList(s) : s \in SeqsUpTo(ListValues, MaxList)}

Idle == [status |-> "idle", out |-> NilBytes, err |-> NoError]

NotCalled(ret) == [called |-> FALSE, ret |-> ret]

Called(ret) == [called |-> TRUE, ret |-> ret]

Init ==
    /\ pc \in {"encode", "decode", "bulk", "project", "match"}
    /\ IF pc = "encode" THEN av \in Values ELSE av = Value(Invalid, NilInterface)
    /\ IF pc = "decode" THEN data \in ByteSlices ELSE data = NilBytes
    /\ IF pc \in {"decode", "match"} THEN t \in Tags ELSE t = Invalid
    /\ IF pc = "bulk" THEN i \in NativeLists ELSE i = NilList
    /\ IF pc = "project" THEN vals \in ValueLists ELSE vals = NilList
    /\ IF pc = "match" THEN R \in Reps ELSE R = "<nil>"
    /\ serIn = Value(Invalid, NilInterface)
    /\ ser = Idle
    /\ desIn = [data |-> NilBytes, t |-> Invalid]
    /\ des = NotCalled([out |-> NilValue, err |-> NoError])
    /\ tv = NotCalled([out |-> NilList, err |-> NoError])
    /\ fvIn = NilList
    /\ fv = NotCalled(NilList)
    /\ tm = NotCalled(FALSE)
    /\ last = "none"

\* Values the caller can hand to Serialize: the one it built itself (from any
\* tag and payload, or from the tag and bytes it holds), the one a successful
\* Deserialize returned, an element of what ToValues returned.
SerializeArgs ==
    (IF pc = "encode" THEN {av} ELSE {})
    \cup (IF pc = "decode" THEN {Value(t, ByteSlice(data))} ELSE {})
    \cup (IF des.called /\ ~des.ret.out.isnil THEN {des.ret.out.val} ELSE {})
    \cup (IF tv.called
          THEN {tv.ret.out.elems[k] : k \in 1..Len(tv.ret.out.elems)}
          ELSE {})

DoSerialize ==
    /\ \E v \in SerializeArgs :
          /\ serIn' = v
          /\ ser' = Serialize(v)
    /\ last' = "Serialize"
    /\ UNCHANGED <<inputs, desIn, des, tv, fvIn, fv, tm>>

\* Arguments the caller can hand to Deserialize: its own bytes and tag, or the
\* bytes Serialize returned without error together with the tag of that Value.
DeserializeArgs ==
    (IF pc = "decode" THEN {[data |-> data, t |-> t]} ELSE {})
    \cup (IF ser.status = "returned" /\ ser.err = NoError
          THEN {[data |-> ser.out, t |-> serIn.Type]}
          ELSE {})

DoDeserialize ==
    /\ \E a \in DeserializeArgs :
          /\ desIn' = a
          /\ des' = Called(Deserialize(a.data, a.t))
    /\ last' = "Deserialize"
    /\ UNCHANGED <<inputs, serIn, ser, tv, fvIn, fv, tm>>

DoToValues ==
    /\ pc = "bulk"
    /\ tv' = Called(ToValues(i))
    /\ last' = "ToValues"
    /\ UNCHANGED <<inputs, serIn, ser, desIn, des, fvIn, fv, tm>>

FromValuesArgs ==
    (IF pc = "project" THEN {vals} ELSE {})
    \cup (IF tv.called /\ tv.ret.err = NoError THEN {tv.ret.out} ELSE {})

DoFromValues ==
    /\ \E a \in FromValuesArgs :
          /\ fvIn' = a
          /\ fv' = Called(FromValues(a))
    /\ last' = "FromValues"
    /\ UNCHANGED <<inputs, serIn, ser, desIn, des, tv, tm>>

DoTypeMatches ==
    /\ pc = "match"
    /\ tm' = Called(TypeMatches(t, R))
    /\ last' = "TypeMatches"
    /\ UNCHANGED <<inputs, serIn, ser, desIn, des, tv, fvIn, fv>>

Next ==
    \/ DoSerialize
    \/ DoDeserialize
    \/ DoToValues
    \/ DoFromValues
    \/ DoTypeMatches

Spec == Init /\ [][Next]_vars

\* ---------------------------------------------------------------- claims
\* The tag / representation pairs of the data model's table.
TagRep ==
    {<<Address, "types.Address">>, <<Integer, "*big.Int">>,
     <<Bytes, "[]uint8">>, <<String, "string">>}

ValidTags == {Address, Integer, Bytes, String}

RepOfTag(tag) == (CHOOSE p \in TagRep : p[1] = tag)[2]

Matching(v) == <<v.Type, TypeOf(v.Val)>> \in TagRep

SerializeOk == ser.status = "returned" /\ ser.err = NoError

\* des is the result of Deserialize on what Serialize returned for serIn
Chained == SerializeOk /\ des.called /\ desIn = [data |-> ser.out, t |-> serIn.Type]

\* C1: for every valid tag T and every native value v of T's representation
\* (for Integer: a non-negative integer), Serialize({T, v}) succeeds, and
\* Deserialize of its bytes with tag T succeeds and returns a Value equal to
\* {T, v}; a negative Integer does not come back.
C1_RoundTrip ==
    /\ (/\ ser.status # "idle"
        /\ Matching(serIn)
        /\ (serIn.Type = Integer => ~serIn.Val.isnil))
       => SerializeOk
    /\ (/\ Chained
        /\ Matching(serIn)
        /\ (serIn.Type = Integer => serIn.Val.num >= 0))
       => /\ des.ret.err = NoError
          /\ ~des.ret.out.isnil
          /\ des.ret.out.val = serIn
    /\ (/\ Chained
        /\ Matching(serIn)
        /\ serIn.Type = Integer
        /\ serIn.Val.num < 0)
       => des.ret.out.val # serIn

C1_Witness ==
    /\ pc = "encode"
    /\ last = "Deserialize"
    /\ Chained
    /\ serIn = Value(Integer, BigInt(300))
    /\ ser.out = MkBytes(<<1, 44>>)
    /\ des.ret.out.val = serIn

\* C2: Serialize of a Value tagged Invalid returns ErrInvalidType and no
\* bytes whatever the payload; Deserialize with tag Invalid returns
\* ErrInvalidType and no Value whatever the bytes.
C2_InvalidFails ==
    /\ (ser.status # "idle" /\ serIn.Type = Invalid)
       => ser = Returned(NilBytes, ErrInvalidType)
    /\ (des.called /\ desIn.t = Invalid)
       => des.ret = [out |-> NilValue, err |-> ErrInvalidType]

C2_Witness ==
    /\ ser.status # "idle"
    /\ serIn = Value(Invalid, ByteSlice(MkBytes(<<1, 44>>)))
    /\ des.called
    /\ desIn = [data |-> MkBytes(<<1, 44>>), t |-> Invalid]

\* C3: for a valid tag T and a payload of any other representation, Serialize
\* returns no bytes and a typeError whose expected side is T's representation
\* and whose actual side is the payload's.
C3_TypeMismatch ==
    (/\ ser.status # "idle"
     /\ serIn.Type \in ValidTags
     /\ ~Matching(serIn))
    => /\ ser.status = "returned"
       /\ ser.out = NilBytes
       /\ ser.err = [kind |-> "typeError", exp |-> RepOfTag(serIn.Type),
                     got |-> TypeOf(serIn.Val), tag |-> 0]

C3_Witness ==
    /\ ser.status = "returned"
    /\ serIn.Type = Address
    /\ TypeOf(serIn.Val) = "*big.Int"
    /\ ser.err.kind = "typeError"

IsSupported(v) == TypeOf(v) \in {p[2] : p \in TagRep}

AllSupported(l) == \A k \in 1..Len(l.elems) : IsSupported(l.elems[k])

FirstUnsupported(l) ==
    l.elems[CHOOSE k \in 1..Len(l.elems) :
               /\ ~IsSupported(l.elems[k])
               /\ \A j \in 1..(k - 1) : IsSupported(l.elems[j])]

\* C4: when the list holds an element of none of the four representations,
\* at any position, ToValues returns no Values at all and the unsupported
\* type error that names the representation of the first such element.
C4_AllOrNothing ==
    (tv.called /\ ~AllSupported(i))
    => /\ tv.ret.out = NilList
       /\ tv.ret.err = [kind |-> "unsupported type", exp |-> "",
                        got |-> TypeOf(FirstUnsupported(i)), tag |-> 0]

C4_Witness ==
    /\ tv.called
    /\ Len(i.elems) = MaxList
    /\ \A k \in 1..(MaxList - 1) : IsSupported(i.elems[k])
    /\ i.elems[MaxList] = PlainInt(300)
    /\ tv.ret.err.kind = "unsupported type"

\* C5: for a list of supported native values ToValues succeeds, and
\* FromValues of its result has the same length and the same elements in the
\* same order as the list.
C5_BulkRoundTrip ==
    /\ (tv.called /\ AllSupported(i)) => tv.ret.err = NoError
    /\ (/\ tv.called
        /\ AllSupported(i)
        /\ fv.called
        /\ fvIn = tv.ret.out)
       => /\ Len(fv.ret.elems) = Len(i.elems)
          /\ \A k \in 1..Len(i.elems) : fv.ret.elems[k] = i.elems[k]

C5_Witness ==
    /\ last = "FromValues"
    /\ i = MkList(<<StringOf(<<104, 105>>), BigInt(300)>>)
    /\ tv.ret.out =
         MkList(<<Value(String, StringOf(<<104, 105>>)), Value(Integer, BigInt(300))>>)
    /\ fv.ret = i

\* C6: TypeMatches(T, R) is true exactly when T is a valid tag and R the
\* representation of T; false for Invalid, for unrecognized tags and for
\* every other pair.
C6_TypeMatches ==
    tm.called => (tm.ret <=> <<t, R>> \in TagRep)

C6_Witness ==
    /\ tm.called
    /\ t = Bytes
    /\ R = "[]uint8"
    /\ tm.ret

\* C7: Deserialize succeeds exactly for the four valid tags, and then returns
\* a Value carrying that tag whatever the bytes (empty and nil included); for
\* a tag above String it returns no Value and the unrecognized Type error
\* with the tag.
C7_DeserializeTotal ==
    des.called =>
        /\ (des.ret.err = NoError <=> desIn.t \in ValidTags)
        /\ (desIn.t \in ValidTags
            => ~des.ret.out.isnil /\ des.ret.out.val.Type = desIn.t)
        /\ (desIn.t \notin ValidTags => des.ret.out = NilValue)
        /\ (desIn.t > String
            => des.ret.err = [kind |-> "unrecognized Type", exp |-> "",
                              got |-> "", tag |-> desIn.t])

C7_Witness ==
    /\ des.called
    /\ desIn = [data |-> NilBytes, t |-> Integer]
    /\ des.ret.err = NoError
    /\ des.ret.out.val = Value(Integer, BigInt(0))

\* C8: ToValues of an empty or nil list returns the nil slice and no error,
\* FromValues of an empty or nil list returns the nil slice, and neither ever
\* returns a non-nil slice of length zero.
C8_EmptyIsNil ==
    /\ (tv.called /\ Len(i.elems) = 0) => tv.ret = [out |-> NilList, err |-> NoError]
    /\ (fv.called /\ Len(fvIn.elems) = 0) => fv.ret = NilList
    /\ tv.called => (Len(tv.ret.out.elems) = 0 => tv.ret.out.isnil)
    /\ fv.called => (Len(fv.ret.elems) = 0 => fv.ret.isnil)

C8_Witness ==
    /\ i = MkList(<<>>)
    /\ tv.called
    /\ tv.ret.out = NilList
    /\ fv.called
    /\ fv.ret = NilList

\* the Values ToValues returned and the one a successful Deserialize returned
Produced ==
    (IF tv.called
     THEN {tv.ret.out.elems[k] : k \in 1..Len(tv.ret.out.elems)}
     ELSE {})
    \cup (IF des.called /\ des.ret.err = NoError THEN {des.ret.out.val} ELSE {})

\* C9: every Value returned by ToValues or by a successful Deserialize has a
\* valid tag and a payload of that tag's representation, and Serialize of such
\* a Value returns none of ErrInvalidType, a typeError, unrecognized Type.
C9_WellTyped ==
    /\ \A v \in Produced : Matching(v) /\ TypeMatches(v.Type, TypeOf(v.Val))
    /\ (ser.status # "idle" /\ serIn \in Produced)
       => ser.err.kind \notin {"invalid type", "typeError", "unrecognized Type"}

C9_Witness ==
    /\ pc = "bulk"
    /\ last = "Serialize"
    /\ serIn = Value(Bytes, ByteSlice(MkBytes(<<1, 2, 3>>)))
    /\ serIn \in Produced
    /\ ser = Returned(MkBytes(<<1, 2, 3>>), NoError)

RECURSIVE Pow256(_)
Pow256(e) == IF e = 0 THEN 1 ELSE 256 * Pow256(e - 1)

\* the number a byte sequence denotes, most significant byte first
RECURSIVE BigEndian(_)
BigEndian(b) ==
    IF b = <<>> THEN 0 ELSE Head(b) * Pow256(Len(b) - 1) + BigEndian(Tail(b))

NoLeadingZero(b) == b = <<>> \/ Head(b) # 0

IsInteger(v) == v.Type = Integer /\ TypeOf(v.Val) = "*big.Int" /\ ~v.Val.isnil

\* C10: Serialize of {Integer, n} returns the big-endian bytes of |n| without
\* a leading zero byte (none at all for zero), the same for n and -n;
\* Deserialize with tag Integer returns a non-negative integer, |n| for the
\* bytes of n; and Serialize of what Deserialize(b, Integer) returned gives
\* back the bytes of b exactly when b has no leading zero byte.
C10_Magnitude ==
    /\ (ser.status # "idle" /\ IsInteger(serIn))
       => /\ SerializeOk
          /\ \A k \in 1..Len(ser.out.bytes) : ser.out.bytes[k] \in 0..255
          /\ BigEndian(ser.out.bytes) = Abs(serIn.Val.num)
          /\ NoLeadingZero(ser.out.bytes)
          /\ ser = Serialize(Value(Integer, BigInt(0 - serIn.Val.num)))
    /\ (des.called /\ desIn.t = Integer)
       => IsInteger(des.ret.out.val) /\ des.ret.out.val.Val.num >= 0
    /\ (Chained /\ IsInteger(serIn))
       => des.ret.out.val = Value(Integer, BigInt(Abs(serIn.Val.num)))
    /\ (/\ des.called
        /\ desIn.t = Integer
        /\ ser.status # "idle"
        /\ serIn = des.ret.out.val)
       => (ser.out.bytes = desIn.data.bytes <=> NoLeadingZero(desIn.data.bytes))

C10_Witness ==
    /\ last = "Deserialize"
    /\ Chained
    /\ serIn = Value(Integer, BigInt(0 - 300))
    /\ ser.out = MkBytes(<<1, 44>>)
    /\ des.ret.out.val = Value(Integer, BigInt(300))

====
